---- MODULE Spec2Model ----
(***************************************************************************)
(* Connection-lifecycle and query-execution manager of the DuckDB SQL      *)
(* editor (src/duckdb-sql-editor/app.py, lines 23-174).                    *)
(*                                                                         *)
(* The manager is two module globals, DB_PATH and _db_connection, and the  *)
(* functions get_connection, reset_with_new_db, reset_connection and       *)
(* execute_query.  The embedded engine is modelled by the files it finds   *)
(* on disk (fs), by the connection objects it has handed out (handles) and *)
(* by the failures it may raise, which are inputs of the actions.          *)
(***************************************************************************)
EXTENDS Integers, Sequences, FiniteSets

VARIABLES
    DB_PATH,        \* app.py:23   the configured database path
    _db_connection, \* app.py:26   None, or the id of a connection object
    handles,        \* every connection object duckdb.connect has returned
    fs,             \* the database files on disk, by absolute path
    last,           \* the most recent completed call and what it returned
    lastGot,        \* handle served by get_connection since the last reset/swap
    failedSwap,     \* the most recent reset_with_new_db call if it failed
    threads,        \* concurrent requests: each one's position and locals
    reply           \* what the last HTTP endpoint answered, and what it did

vars == <<DB_PATH, _db_connection, handles, fs, last, lastGot, failedSwap,
          threads, reply>>

\* The state of the requests, which the calls that run alone leave as it is.
requests == <<threads, reply>>

\* Bound of the model: connection objects created in one behaviour.
MaxHandles == 2
\* Bound of the model: connection objects created in one behaviour of the
\* concurrent specification.
MaxConcHandles == 3

None == 0

(***************************************************************************)
(* Text.  Messages are sequences of characters; an interpolated path is    *)
(* one element of the sequence.                                            *)
(***************************************************************************)
Upper == <<"A","B","C","D","E","F","G","H","I","J","K","L","M","N","O","P","Q","R","S","T","U","V","W","X","Y","Z">>
Lower == <<"a","b","c","d","e","f","g","h","i","j","k","l","m","n","o","p","q","r","s","t","u","v","w","x","y","z">>

\* str.lower() on one character
LowerChar(c) ==
    IF \E i \in 1..Len(Upper) : Upper[i] = c
    THEN Lower[CHOOSE i \in 1..Len(Upper) : Upper[i] = c]
    ELSE c

\* str.lower()
ToLower(s) == [i \in 1..Len(s) |-> LowerChar(s[i])]

\* needle in hay
Contains(hay, needle) ==
    \E i \in 1..(Len(hay) + 1) :
        /\ i + Len(needle) - 1 <= Len(hay)
        /\ SubSeq(hay, i, i + Len(needle) - 1) = needle

NeedleConnection == <<"c","o","n","n","e","c","t","i","o","n">>
NeedleDatabase == <<"d","a","t","a","b","a","s","e">>
RetryPrefix == <<"Q","u","e","r","y"," ","f","a","i","l","e","d"," ","a","f","t","e","r"," ","c","o","n","n","e","c","t","i","o","n"," ","r","e","s","e","t",":"," ">>
SwapPrefix == <<"F","a","i","l","e","d"," ","t","o"," ","c","h","a","n","g","e"," ","d","a","t","a","b","a","s","e",":"," ">>
NotFoundPrefix == <<"D","a","t","a","b","a","s","e"," ","f","i","l","e"," ","n","o","t"," ","f","o","u","n","d",":"," ">>

\* Texts of the engine's exceptions.
ParserMsg == <<"P","a","r","s","e","r"," ","E","r","r","o","r",":"," ","s","y","n","t","a","x"," ","e","r","r","o","r">>
CatalogMsg == <<"C","a","t","a","l","o","g"," ","E","r","r","o","r",":"," ","T","a","b","l","e"," ","d","o","e","s"," ","n","o","t"," ","e","x","i","s","t">>
DbObjectMsg == <<"B","i","n","d","e","r"," ","E","r","r","o","r",":"," ","D","a","t","a","b","a","s","e"," ","o","b","j","e","c","t"," ","n","o","t"," ","f","o","u","n","d">>
ClosedMsg == <<"C","o","n","n","e","c","t","i","o","n"," ","E","r","r","o","r",":"," ","C","o","n","n","e","c","t","i","o","n"," ","a","l","r","e","a","d","y"," ","c","l","o","s","e","d","!">>
LostMsg == <<"I","O"," ","E","r","r","o","r",":"," ","l","o","s","t"," ","C","O","N","N","E","C","T","I","O","N">>
MemoryMsg == <<"O","u","t"," ","o","f"," ","M","e","m","o","r","y"," ","E","r","r","o","r">>
NoSuchFileMsg == <<"I","O"," ","E","r","r","o","r",":"," ","C","a","n","n","o","t"," ","o","p","e","n"," ","f","i","l","e",":"," ">>
NotDuckMsg == <<"I","O"," ","E","r","r","o","r",":"," ","n","o","t"," ","a"," ","v","a","l","i","d"," ","D","u","c","k","D","B"," ","f","i","l","e",":"," ">>

NoMsg == <<>>
\* Failures the engine may raise on a statement whatever the statement is.
Faults == {LostMsg, MemoryMsg}

(***************************************************************************)
(* Paths and files.                                                        *)
(***************************************************************************)
DefaultPath == "../duckdb-demo.duckdb"
UploadPath == "temp_db/upload.duckdb"
Paths == {DefaultPath, UploadPath}

\* Path(p).resolve(): the absolute path, relative to the working directory
Resolve(p) ==
    CASE p = DefaultPath -> "/srv/duckdb-demo.duckdb"
      [] p = UploadPath  -> "/srv/app/temp_db/upload.duckdb"
      [] OTHER           -> "/srv/app/" \o p

AbsPaths == {Resolve(p) : p \in Paths}

\* "missing": no such file; "corrupt": a file the engine refuses to open;
\* "valid": a database file.
FileStates == {"missing", "corrupt", "valid"}

\* Path.exists(), in the file system fsys
ExistsIn(fsys, abs) == fsys[abs] # "missing"

\* Path.exists()
Exists(abs) == ExistsIn(fs, abs)

(***************************************************************************)
(* The embedded engine.                                                    *)
(***************************************************************************)
\* The state of the two globals and of the connection objects.
Manager == [conn |-> _db_connection, DB_PATH |-> DB_PATH, handles |-> handles]

\* duckdb.connect(str(db_path), read_only=True) raises unless the file is a
\* database; read-only mode never creates the file.
ConnectErrorIn(fsys, abs) ==
    IF fsys[abs] = "valid" THEN NoMsg
    ELSE IF fsys[abs] = "missing" THEN NoSuchFileMsg \o <<abs>>
    ELSE NotDuckMsg \o <<abs>>

\* duckdb.connect(...) on the file system as it is
ConnectError(abs) == ConnectErrorIn(fs, abs)

\* The connection object a successful duckdb.connect returns.
NewHandle(abs) == [path |-> abs, open |-> TRUE]

\* Variant: installing a connection sets the configured path back to the
\* startup one.
InstallResetsPath(m, abs) ==
    [m EXCEPT !.handles = Append(@, NewHandle(abs)),
              !.conn = Len(m.handles) + 1,
              !.DB_PATH = DefaultPath]

\* _db_connection = duckdb.connect(...) when it succeeds
Install(m, abs) ==
    [m EXCEPT !.handles = Append(@, NewHandle(abs)),
              !.conn = Len(m.handles) + 1]

\* An exception of the engine, as the outcome of a statement.
Raised(e) == [error |-> e, columns |-> <<>>, data |-> <<>>]

Queries == {"SELECT 1", "SELEC 1", "SELECT x FROM t WHERE FALSE", "USE nodb"}

\* Table names given to get_table_schema: the table of the database, and a
\* name that is no table.
Tables == {"t", "nope"}

\* f"DESCRIBE {table_name}"
Describe(table_name) == "DESCRIBE " \o table_name

\* What a healthy connection answers to a statement.
Answer(q) ==
    CASE q = "SELECT 1" ->
            [error |-> NoMsg, columns |-> <<"1">>, data |-> << <<1>> >>]
      [] q = "SELECT x FROM t WHERE FALSE" ->
            [error |-> NoMsg, columns |-> <<"x">>, data |-> <<>>]
      [] q = "SELEC 1" -> Raised(ParserMsg)
      [] q = "USE nodb" -> Raised(DbObjectMsg)
      [] q = "SHOW TABLES" ->
            [error |-> NoMsg, columns |-> <<"name">>, data |-> << <<"t">> >>]
      [] q = "DESCRIBE t" ->
            [error |-> NoMsg,
             columns |-> <<"column_name", "column_type", "null">>,
             data |-> << <<"x", "INTEGER", "YES">> >>]
      [] q = "DESCRIBE nope" -> Raised(CatalogMsg)
      [] q = "SELECT\n1" ->
            [error |-> NoMsg, columns |-> <<"1">>, data |-> << <<1>> >>]
      [] OTHER -> Raised(ParserMsg)

\* conn.execute(query).fetchall() and conn.description on handle h, as the set
\* of its possible outcomes: a closed connection raises; an open one answers
\* the statement or raises one of the engine's faults.
Run(m, h, q) ==
    IF ~m.handles[h].open
    THEN {Raised(ClosedMsg)}
    ELSE {Answer(q)} \cup {Raised(e) : e \in Faults}

(***************************************************************************)
(* get_connection, app.py:28-45                                            *)
(***************************************************************************)
\* Variant: a manager without a handle stays without one.
GetConnectionNeverOpens(m) ==
    IF m.conn = None
    THEN [m |-> m, raised |-> TRUE, ret |-> None,
          error |-> NotFoundPrefix \o <<Resolve(m.DB_PATH)>>]
    ELSE [m |-> m, raised |-> FALSE, ret |-> m.conn, error |-> NoMsg]

\* Variant: the "is None" test is lost, every call opens the file again.
GetConnectionAlwaysOpens(m) ==
    LET abs == Resolve(m.DB_PATH) IN
    IF ~Exists(abs)
    THEN [m |-> m, raised |-> TRUE, ret |-> None,
          error |-> NotFoundPrefix \o <<abs>>]
    ELSE IF ConnectError(abs) # NoMsg
    THEN [m |-> m, raised |-> TRUE, ret |-> None, error |-> ConnectError(abs)]
    ELSE [m |-> Install(m, abs), raised |-> FALSE,
          ret |-> Len(m.handles) + 1, error |-> NoMsg]

\* Variant: the FileNotFoundError does not say which file.
GetConnectionAnonymousError(m) ==
    IF m.conn = None
    THEN LET abs == Resolve(m.DB_PATH) IN
         IF ~Exists(abs)
         THEN [m |-> m, raised |-> TRUE, ret |-> None,
               error |-> NotFoundPrefix]
         ELSE IF ConnectError(abs) # NoMsg
         THEN [m |-> m, raised |-> TRUE, ret |-> None,
               error |-> ConnectError(abs)]
         ELSE [m |-> Install(m, abs), raised |-> FALSE,
               ret |-> Len(m.handles) + 1, error |-> NoMsg]
    ELSE [m |-> m, raised |-> FALSE, ret |-> m.conn, error |-> NoMsg]

GetConnection(m) ==
    IF m.conn = None
    THEN LET abs == Resolve(m.DB_PATH) IN
         IF ~Exists(abs)
         THEN [m |-> m, raised |-> TRUE, ret |-> None,
               error |-> NotFoundPrefix \o <<abs>>]
         ELSE IF ConnectError(abs) # NoMsg
         THEN [m |-> m, raised |-> TRUE, ret |-> None,
               error |-> ConnectError(abs)]
         ELSE [m |-> Install(m, abs), raised |-> FALSE,
               ret |-> Len(m.handles) + 1, error |-> NoMsg]
    ELSE [m |-> m, raised |-> FALSE, ret |-> m.conn, error |-> NoMsg]

(***************************************************************************)
(* What a call leaves in `last`.                                           *)
(***************************************************************************)
BaseCall(op, arg, m) ==
    [op |-> op, arg |-> arg, raised |-> FALSE, ok |-> TRUE, ret |-> None,
     error |-> NoMsg, hasError |-> FALSE, columns |-> <<>>, data |-> <<>>,
     resets |-> 0, resetOk |-> FALSE, execs |-> 0, firstOn |-> None,
     firstError |-> NoMsg, retryError |-> NoMsg,
     retryOn |-> None, closeRaised |-> FALSE, probed |-> FALSE,
     preConn |-> m.conn, prePath |-> m.DB_PATH]

(***************************************************************************)
(* Dropping the reference, _db_connection = None (app.py:60, 81, 122,      *)
(* 135).  Nothing closes the connection object here: if it is still open   *)
(* its finalizer closes it, at once or at some later time (Finalize).      *)
(***************************************************************************)
\* Variant: the reference is not cleared.
DropKeepsReference(m) == {m}

Drop(m) ==
    IF m.conn = None
    THEN {m}
    ELSE {[m EXCEPT !.conn = None],
          [m EXCEPT !.conn = None, !.handles[m.conn].open = FALSE]}

(***************************************************************************)
(* The close of the existing connection, app.py:54-60 and 116-122:         *)
(* close() is called, an exception of it is logged, and the reference is   *)
(* dropped in either case.  A close() that raised has closed nothing.      *)
(***************************************************************************)
\* Variant: the reference is dropped without close() being called.
CloseExistingSkipsClose(m) == {[m |-> d, raised |-> FALSE] : d \in Drop(m)}

CloseExisting(m) ==
    IF m.conn = None
    THEN {[m |-> m, raised |-> FALSE]}
    ELSE {[m |-> [m EXCEPT !.conn = None, !.handles[m.conn].open = FALSE],
           raised |-> FALSE]}
         \cup {[m |-> d, raised |-> TRUE] : d \in Drop(m)}

\* _db_connection.execute("SELECT 1").fetchall() on the installed handle
Probe(m) == Run(m, m.conn, "SELECT 1")

(***************************************************************************)
(* reset_with_new_db, app.py:47-82                                         *)
(***************************************************************************)
\* global DB_PATH; DB_PATH = new_db_path (before the path is validated)
\* Variant: without "global DB_PATH" the assignment binds a local name.
SetPathLocalOnly(m, new_db_path) == m

SetPath(m, new_db_path) == [m EXCEPT !.DB_PATH = new_db_path]

ResetWithNewDbOn(fsys, m, new_db_path) ==
    UNION {
      LET m1 == SetPath(c.m, new_db_path)
          abs == Resolve(m1.DB_PATH)
          call == [BaseCall("reset_with_new_db", new_db_path, m) EXCEPT
                      !.closeRaised = c.raised]
          failure(mm, e) ==
              {[m |-> d,
                out |-> [call EXCEPT !.ok = FALSE, !.error = SwapPrefix \o e]]
               : d \in Drop(mm)}
      IN  IF ~ExistsIn(fsys, abs)
          THEN failure(m1, NotFoundPrefix \o <<abs>>)
          ELSE IF ConnectErrorIn(fsys, abs) # NoMsg
          THEN failure(m1, ConnectErrorIn(fsys, abs))
          ELSE LET m2 == Install(m1, abs) IN
               UNION {
                 IF probe.error # NoMsg
                 THEN failure(m2, probe.error)
                 ELSE {[m |-> m2,
                        out |-> [call EXCEPT !.ok = TRUE, !.ret = m2.conn,
                                             !.probed = TRUE]]}
                 : probe \in Probe(m2)}
      : c \in CloseExisting(m)}

\* reset_with_new_db on the file system as it is
ResetWithNewDb(m, new_db_path) == ResetWithNewDbOn(fs, m, new_db_path)

(***************************************************************************)
(* reset_connection, app.py:110-136                                        *)
(***************************************************************************)
ResetConnection(m) ==
    UNION {
      LET m1 == c.m
          abs == Resolve(m1.DB_PATH)
          call == [BaseCall("reset_connection", "", m) EXCEPT
                      !.resets = 1, !.closeRaised = c.raised]
          failure(mm, e) ==
              {[m |-> d, out |-> [call EXCEPT !.ok = FALSE, !.error = e]]
               : d \in Drop(mm)}
      IN  IF ConnectError(abs) # NoMsg
          THEN failure(m1, ConnectError(abs))
          ELSE LET m2 == Install(m1, abs) IN
               UNION {
                 IF probe.error # NoMsg
                 THEN failure(m2, probe.error)
                 ELSE {[m |-> m2,
                        out |-> [call EXCEPT !.ok = TRUE, !.ret = m2.conn,
                                             !.resetOk = TRUE,
                                             !.probed = TRUE]]}
                 : probe \in Probe(m2)}
      : c \in CloseExisting(m)}

(***************************************************************************)
(* execute_query, app.py:138-174                                           *)
(***************************************************************************)
\* "connection" in str(e).lower() or "database" in str(e).lower()
\* Variant: every failure is taken for a connection issue.
AnyErrorIsConnectionIssue(e) == TRUE

\* Variant: the text is searched as it is, without lower-casing it.
IsConnectionIssueCaseSensitive(e) ==
    \/ Contains(e, NeedleConnection)
    \/ Contains(e, NeedleDatabase)

IsConnectionIssue(e) ==
    \/ Contains(ToLower(e), NeedleConnection)
    \/ Contains(ToLower(e), NeedleDatabase)

\* The texts a statement can raise, and the heuristic's verdict on each.
StatementMsgs == {ParserMsg, DbObjectMsg, ClosedMsg} \cup Faults
ConnectionIssues == {e \in StatementMsgs : IsConnectionIssue(e)}

\* Variant: a failed retry is retried once more.
RetryAgain(m, query, call) ==
    LET g2 == GetConnection(m) IN
    UNION {
      LET c3 == [call EXCEPT !.execs = @ + 1, !.retryOn = g2.ret,
                             !.retryError = retry.error] IN
      IF retry.error = NoMsg
      THEN {[m |-> g2.m,
             out |-> [c3 EXCEPT !.columns = retry.columns,
                                !.data = retry.data]]}
      ELSE {[m |-> g2.m,
             out |-> IF again.error = NoMsg
                     THEN [c3 EXCEPT !.execs = @ + 1,
                                     !.columns = again.columns,
                                     !.data = again.data]
                     ELSE [c3 EXCEPT !.execs = @ + 1, !.ok = FALSE,
                                     !.hasError = TRUE,
                                     !.error = RetryPrefix \o again.error]]
            : again \in Run(g2.m, g2.ret, query)}
      : retry \in Run(g2.m, g2.ret, query)}

\* Variant: a retry that succeeded is reported with a notice in "error".
RetryFlagsRecovery(m, query, call) ==
    LET g2 == GetConnection(m) IN
    {LET c3 == [call EXCEPT !.execs = @ + 1, !.retryOn = g2.ret,
                            !.retryError = retry.error] IN
     IF retry.error = NoMsg
     THEN [m |-> g2.m,
           out |-> [c3 EXCEPT !.columns = retry.columns, !.data = retry.data,
                              !.hasError = TRUE, !.error = RetryPrefix]]
     ELSE [m |-> g2.m,
           out |-> [c3 EXCEPT !.ok = FALSE, !.hasError = TRUE,
                              !.error = RetryPrefix \o retry.error]]
     : retry \in Run(g2.m, g2.ret, query)}

\* Variant: the retry runs on the handle of the first attempt.
RetryOnStaleHandle(m, query, call) ==
    {LET c3 == [call EXCEPT !.execs = @ + 1, !.retryOn = call.firstOn,
                            !.retryError = retry.error] IN
     IF retry.error = NoMsg
     THEN [m |-> m,
           out |-> [c3 EXCEPT !.columns = retry.columns, !.data = retry.data]]
     ELSE [m |-> m,
           out |-> [c3 EXCEPT !.ok = FALSE, !.hasError = TRUE,
                              !.error = RetryPrefix \o retry.error]]
     : retry \in Run(m, call.firstOn, query)}

\* The retry after a successful reset, app.py:160-172
Retry(m, query, call) ==
    LET g2 == GetConnection(m) IN
    IF g2.raised
    THEN {[m |-> g2.m,
           out |-> [call EXCEPT !.ok = FALSE, !.hasError = TRUE,
                                !.error = RetryPrefix \o g2.error]]}
    ELSE {LET c3 == [call EXCEPT !.execs = @ + 1, !.retryOn = g2.ret,
                                 !.retryError = retry.error] IN
          IF retry.error = NoMsg
          THEN [m |-> g2.m,
                out |-> [c3 EXCEPT !.columns = retry.columns,
                                   !.data = retry.data]]
          ELSE [m |-> g2.m,
                out |-> [c3 EXCEPT !.ok = FALSE, !.hasError = TRUE,
                                   !.error = RetryPrefix \o retry.error]]
          : retry \in Run(g2.m, g2.ret, query)}

ExecuteQuery(m, query) ==
    LET call == BaseCall("execute_query", query, m)
        g == GetConnection(m)
    IN  IF g.raised
        THEN \* line 140 is outside the try: the exception leaves the function
             {[m |-> g.m,
               out |-> [call EXCEPT !.raised = TRUE, !.ok = FALSE,
                                    !.error = g.error]]}
        ELSE
        UNION {
          LET c1 == [call EXCEPT !.execs = @ + 1, !.firstOn = g.ret,
                                 !.firstError = first.error] IN
          IF first.error = NoMsg
          THEN {[m |-> g.m,
                 out |-> [c1 EXCEPT !.columns = first.columns,
                                    !.data = first.data]]}
          ELSE IF first.error \in ConnectionIssues
          THEN UNION {
                 LET c2 == [c1 EXCEPT !.resets = @ + r.out.resets,
                                      !.resetOk = r.out.ok,
                                      !.closeRaised = r.out.closeRaised,
                                      !.probed = r.out.probed]
                 IN  IF r.out.ok
                     THEN Retry(r.m, query, c2)
                     ELSE {[m |-> r.m,
                            out |-> [c2 EXCEPT !.ok = FALSE,
                                               !.hasError = TRUE,
                                               !.error = first.error]]}
                 : r \in ResetConnection(g.m)}
          ELSE {[m |-> g.m,
                 out |-> [c1 EXCEPT !.ok = FALSE, !.hasError = TRUE,
                                    !.error = first.error]]}
          : first \in Run(g.m, g.ret, query)}

(***************************************************************************)
(* get_table_names, app.py:84-93, and get_table_schema, app.py:96-107.     *)
(* Both return a list; an exception of the statement is printed and an     *)
(* empty list is returned (firstError keeps the text that was printed).    *)
(***************************************************************************)
\* conn = get_connection(); try: conn.execute(statement).fetchall()
\* except Exception: return []
Introspect(m, op, arg, statement) ==
    LET call == BaseCall(op, arg, m)
        g == GetConnection(m)
    IN  IF g.raised
        THEN \* lines 86 and 98 are outside the try
             {[m |-> g.m,
               out |-> [call EXCEPT !.raised = TRUE, !.ok = FALSE,
                                    !.error = g.error]]}
        ELSE {[m |-> g.m,
               out |-> [call EXCEPT !.execs = @ + 1, !.firstOn = g.ret,
                                    !.firstError = r.error,
                                    !.data = r.data]]
              : r \in Run(g.m, g.ret, statement)}

\* [table[0] for table in tables]
FirstColumn(rows) == [i \in 1..Len(rows) |-> rows[i][1]]

GetTableNames(m) ==
    {[r EXCEPT !.out.data = FirstColumn(@)]
     : r \in Introspect(m, "get_table_names", "", "SHOW TABLES")}

GetTableSchema(m, table_name) ==
    Introspect(m, "get_table_schema", table_name, Describe(table_name))

(***************************************************************************)
(* The state machine: one action per call, each run to completion.         *)
(***************************************************************************)
NoSwap == [failed |-> FALSE, new |-> DefaultPath, served |-> ""]

\* Requests served at the same time (the event loop and a worker thread).
Threads == {1, 2}

\* A request that is not inside any of the manager's functions.
Idle ==
    [pc |-> "idle", op |-> "", arg |-> "", stage |-> "", conn |-> None,
     path |-> "", closedOld |-> FALSE, window |-> FALSE, overlapped |-> FALSE,
     outcome |-> "", ret |-> None]

\* No endpoint has answered yet.
NoReply == [endpoint |-> ""]

Init ==
    /\ DB_PATH = DefaultPath
    /\ _db_connection = None
    /\ handles = <<>>
    /\ fs \in [AbsPaths -> FileStates]
    /\ last = BaseCall("start", "", [conn |-> None, DB_PATH |-> DefaultPath])
    /\ lastGot = None
    /\ failedSwap = NoSwap
    /\ threads = [t \in Threads |-> Idle]
    /\ reply = NoReply

\* The globals and connection objects after a call.
Commit(m) ==
    /\ Len(m.handles) <= MaxHandles
    /\ DB_PATH' = m.DB_PATH
    /\ _db_connection' = m.conn
    /\ handles' = m.handles

CallGetConnection ==
    LET g == GetConnection(Manager) IN
    /\ Commit(g.m)
    /\ last' = [BaseCall("get_connection", "", Manager) EXCEPT
                    !.raised = g.raised, !.ok = ~g.raised, !.ret = g.ret,
                    !.error = g.error]
    /\ lastGot' = IF g.raised THEN lastGot ELSE g.ret
    /\ UNCHANGED <<fs, failedSwap, requests>>

CallResetWithNewDb ==
    \E new_db_path \in Paths :
      \E r \in ResetWithNewDb(Manager, new_db_path) :
        /\ Commit(r.m)
        /\ last' = r.out
        /\ lastGot' = None
        /\ failedSwap' =
              [failed |-> ~r.out.ok, new |-> new_db_path,
               served |-> IF _db_connection = None THEN ""
                          ELSE handles[_db_connection].path]
        /\ UNCHANGED <<fs, requests>>

CallResetConnection ==
    \E r \in ResetConnection(Manager) :
        /\ Commit(r.m)
        /\ last' = r.out
        /\ lastGot' = None
        /\ UNCHANGED <<fs, failedSwap, requests>>

CallExecuteQuery ==
    \E query \in Queries :
      \E r \in ExecuteQuery(Manager, query) :
        /\ Commit(r.m)
        /\ last' = r.out
        /\ lastGot' = IF r.out.resets > 0 THEN r.out.retryOn
                      ELSE IF r.out.raised THEN lastGot
                      ELSE r.out.firstOn
        /\ UNCHANGED <<fs, failedSwap, requests>>

(***************************************************************************)
(* The environment: the files change, the served connection is closed out  *)
(* of band, an unreferenced connection object is finalized.                *)
(***************************************************************************)
Outside == BaseCall("environment", "", Manager)

ChangeFile ==
    \E abs \in AbsPaths, s \in FileStates :
        /\ fs[abs] # s
        /\ fs' = [fs EXCEPT ![abs] = s]
        /\ last' = Outside
        /\ UNCHANGED <<DB_PATH, _db_connection, handles, lastGot, failedSwap, requests>>

CloseOutOfBand ==
    /\ _db_connection # None
    /\ handles[_db_connection].open
    /\ handles' = [handles EXCEPT ![_db_connection].open = FALSE]
    /\ last' = Outside
    /\ UNCHANGED <<DB_PATH, _db_connection, fs, lastGot, failedSwap, requests>>

Finalize ==
    \E h \in 1..Len(handles) :
        /\ h # _db_connection
        /\ handles[h].open
        /\ handles' = [handles EXCEPT ![h].open = FALSE]
        /\ last' = Outside
        /\ UNCHANGED <<DB_PATH, _db_connection, fs, lastGot, failedSwap, requests>>

Next ==
    \/ CallGetConnection
    \/ CallResetWithNewDb
    \/ CallResetConnection
    \/ CallExecuteQuery
    \/ ChangeFile
    \/ CloseOutOfBand
    \/ Finalize

Spec == Init /\ [][Next]_vars

(***************************************************************************)
(* The manager together with the schema introspection calls.               *)
(***************************************************************************)
CallGetTableNames ==
    \E r \in GetTableNames(Manager) :
        /\ Commit(r.m)
        /\ last' = r.out
        /\ lastGot' = IF r.out.raised THEN lastGot ELSE r.out.firstOn
        /\ UNCHANGED <<fs, failedSwap, requests>>

CallGetTableSchema ==
    \E table_name \in Tables :
      \E r \in GetTableSchema(Manager, table_name) :
        /\ Commit(r.m)
        /\ last' = r.out
        /\ lastGot' = IF r.out.raised THEN lastGot ELSE r.out.firstOn
        /\ UNCHANGED <<fs, failedSwap, requests>>

NextIntrospect ==
    \/ CallGetConnection
    \/ CallResetWithNewDb
    \/ CallResetConnection
    \/ CallExecuteQuery
    \/ CallGetTableNames
    \/ CallGetTableSchema
    \/ ChangeFile
    \/ CloseOutOfBand
    \/ Finalize

SpecIntrospect == Init /\ [][NextIntrospect]_vars

(***************************************************************************)
(* Requests served at the same time.  The manager's functions take no      *)
(* lock, so another request can run between any two accesses of the        *)
(* globals _db_connection and DB_PATH: each access is one step here.       *)
(***************************************************************************)
\* What the requests' steps inside the manager leave as it is.
sequential == <<fs, last, lastGot, failedSwap, reply>>

ConcOps == {"get_connection", "execute_query", "reset_connection",
            "reset_with_new_db"}

\* The statement a concurrent execute_query runs.
ConcQuery == "SELECT 1"

\* Request u has closed and discarded the handle it found installed and has
\* not yet installed its new one (app.py:60-72 and 122-127).
InWindow(u) ==
    /\ threads[u].closedOld
    /\ threads[u].pc \in {"s_path", "s_exists", "r_open", "r_assign"}

\* Request u is inside get_connection and has seen that there is no handle,
\* or is inside a reset or swap that has not yet installed its new handle.
Opening(u) ==
    threads[u].pc \in {"g_open", "g_assign", "r_close", "r_none", "s_path",
                       "s_exists", "r_open", "r_assign"}

\* The request moves on as c and nothing else changes.
Move(t, c) ==
    /\ threads' = [threads EXCEPT ![t] = c]
    /\ UNCHANGED <<DB_PATH, _db_connection, handles, sequential>>

\* get_connection returns ret to its caller: to the request itself, or to
\* execute_query at app.py:140 and 161.
GetReturned(c, ret) ==
    IF c.op = "get_connection"
    THEN [c EXCEPT !.pc = "done", !.outcome = "handle", !.ret = ret]
    ELSE [c EXCEPT !.pc = "e_run", !.conn = ret]

\* get_connection re-raises (app.py:45): execute_query's first call, at
\* line 140, is outside its try; the retry's call, at line 161, is inside.
GetRaised(c) ==
    IF c.op = "execute_query" /\ c.stage = "retry"
    THEN [c EXCEPT !.pc = "done", !.outcome = "error"]
    ELSE [c EXCEPT !.pc = "done", !.outcome = "raised"]

\* reset_connection or reset_with_new_db returns ok: to the request itself,
\* or to execute_query at app.py:158.
ResetReturned(c, ok) ==
    IF c.op = "execute_query"
    THEN IF ok THEN [c EXCEPT !.pc = "g_check", !.stage = "retry"]
         ELSE [c EXCEPT !.pc = "done", !.outcome = "error"]
    ELSE [c EXCEPT !.pc = "done", !.outcome = IF ok THEN "ok" ELSE "failed"]

\* A request arrives and enters one of the manager's functions.
Begin(t) ==
    /\ threads[t].pc \in {"idle", "done"}
    /\ \E op \in ConcOps :
        Move(t, [Idle EXCEPT
                    !.op = op, !.stage = "first",
                    !.arg = CASE op = "reset_with_new_db" -> UploadPath
                              [] op = "execute_query" -> ConcQuery
                              [] OTHER -> "",
                    !.pc = IF op \in {"get_connection", "execute_query"}
                           THEN "g_check" ELSE "r_check"])

\* if _db_connection is None (app.py:33)
GCheck(t) ==
    LET c == threads[t]
        w == c.window \/ (/\ c.stage = "first"
                          /\ _db_connection = None
                          /\ \E u \in Threads \ {t} : InWindow(u))
    IN  /\ c.pc = "g_check"
        /\ Move(t, [c EXCEPT !.window = w,
                             !.pc = IF _db_connection = None
                                    THEN "g_open" ELSE "g_ret"])

\* db_path = Path(DB_PATH).resolve(); the existence check;
\* duckdb.connect(...) (app.py:34-40, before the result is stored)
GOpen(t) ==
    LET c == threads[t]
        abs == Resolve(DB_PATH)
    IN  /\ c.pc = "g_open"
        /\ IF ~Exists(abs) \/ ConnectError(abs) # NoMsg
           THEN Move(t, GetRaised(c))
           ELSE /\ Len(handles) < MaxConcHandles
                /\ handles' = Append(handles, NewHandle(abs))
                /\ threads' = [threads EXCEPT ![t] =
                        [c EXCEPT !.pc = "g_assign", !.conn = Len(handles) + 1,
                                  !.overlapped =
                                      \E u \in Threads \ {t} : Opening(u)]]
                /\ UNCHANGED <<DB_PATH, _db_connection, sequential>>

\* _db_connection = <the new connection> (app.py:40, the store)
GAssign(t) ==
    LET c == threads[t] IN
    /\ c.pc = "g_assign"
    /\ _db_connection' = c.conn
    /\ threads' = [threads EXCEPT ![t] = [c EXCEPT !.pc = "g_ret"]]
    /\ UNCHANGED <<DB_PATH, handles, sequential>>

\* return _db_connection (app.py:42): the global is read again
GRet(t) ==
    LET c == threads[t] IN
    /\ c.pc = "g_ret"
    /\ Move(t, GetReturned(c, _db_connection))

\* conn.execute(query) on the handle get_connection returned (app.py:143 and
\* 162) and what execute_query does with the outcome (app.py:153-174).
ERun(t) ==
    LET c == threads[t] IN
    /\ c.pc = "e_run"
    /\ IF c.conn = None
       THEN \* AttributeError: 'NoneType' object has no attribute 'execute'
            Move(t, [c EXCEPT !.pc = "done", !.outcome = "error"])
       ELSE \E r \in Run(Manager, c.conn, c.arg) :
              Move(t, IF r.error = NoMsg
                      THEN [c EXCEPT !.pc = "done", !.outcome = "rows"]
                      ELSE IF c.stage = "first" /\ r.error \in ConnectionIssues
                      THEN [c EXCEPT !.pc = "r_check"]
                      ELSE [c EXCEPT !.pc = "done", !.outcome = "error"])

\* if _db_connection is not None (app.py:54 and 116)
RCheck(t) ==
    LET c == threads[t]
        swap == c.op = "reset_with_new_db"
    IN  /\ c.pc = "r_check"
        /\ Move(t, [c EXCEPT !.pc = IF _db_connection # None THEN "r_close"
                                    ELSE IF swap THEN "s_path" ELSE "r_open"])

\* _db_connection.close() (app.py:56 and 118); an exception is printed
\* and the function goes on (57-58, 119-120).
RClose(t) ==
    LET c == threads[t] IN
    /\ c.pc = "r_close"
    /\ threads' = [threads EXCEPT ![t] =
            [c EXCEPT !.pc = "r_none", !.closedOld = TRUE]]
    /\ \/ /\ _db_connection # None
          /\ handles' = [handles EXCEPT ![_db_connection].open = FALSE]
       \/ UNCHANGED handles
    /\ UNCHANGED <<DB_PATH, _db_connection, sequential>>

\* finally: _db_connection = None (app.py:60 and 122)
RNone(t) ==
    LET c == threads[t] IN
    /\ c.pc = "r_none"
    /\ _db_connection' = None
    /\ threads' = [threads EXCEPT ![t] =
            [c EXCEPT !.pc = IF c.op = "reset_with_new_db"
                             THEN "s_path" ELSE "r_open"]]
    /\ UNCHANGED <<DB_PATH, handles, sequential>>

\* DB_PATH = new_db_path (app.py:63)
SPath(t) ==
    LET c == threads[t] IN
    /\ c.pc = "s_path"
    /\ DB_PATH' = c.arg
    /\ threads' = [threads EXCEPT ![t] = [c EXCEPT !.pc = "s_exists"]]
    /\ UNCHANGED <<_db_connection, handles, sequential>>

\* db_path = Path(DB_PATH).resolve(); if not db_path.exists(): raise
\* (app.py:66-68)
SExists(t) ==
    LET c == threads[t]
        abs == Resolve(DB_PATH)
    IN  /\ c.pc = "s_exists"
        /\ Move(t, [c EXCEPT !.path = abs,
                             !.pc = IF Exists(abs) THEN "r_open" ELSE "r_fail"])

\* duckdb.connect(str(db_path), read_only=True) (app.py:72 and 125-127,
\* before the result is stored)
ROpen(t) ==
    LET c == threads[t]
        abs == IF c.op = "reset_with_new_db" THEN c.path ELSE Resolve(DB_PATH)
    IN  /\ c.pc = "r_open"
        /\ IF ConnectError(abs) # NoMsg
           THEN Move(t, [c EXCEPT !.pc = "r_fail"])
           ELSE /\ Len(handles) < MaxConcHandles
                /\ handles' = Append(handles, NewHandle(abs))
                /\ threads' = [threads EXCEPT ![t] =
                        [c EXCEPT !.pc = "r_assign", !.conn = Len(handles) + 1]]
                /\ UNCHANGED <<DB_PATH, _db_connection, sequential>>

\* _db_connection = <the new connection> (app.py:72 and 127, the store)
RAssign(t) ==
    LET c == threads[t] IN
    /\ c.pc = "r_assign"
    /\ _db_connection' = c.conn
    /\ threads' = [threads EXCEPT ![t] = [c EXCEPT !.pc = "r_probe"]]
    /\ UNCHANGED <<DB_PATH, handles, sequential>>

\* _db_connection.execute("SELECT 1").fetchall() (app.py:75 and 130): the
\* global is read again
RProbe(t) ==
    LET c == threads[t] IN
    /\ c.pc = "r_probe"
    /\ IF _db_connection = None
       THEN Move(t, [c EXCEPT !.pc = "r_fail"])
       ELSE \E r \in Probe(Manager) :
              Move(t, IF r.error = NoMsg THEN ResetReturned(c, TRUE)
                      ELSE [c EXCEPT !.pc = "r_fail"])

\* except Exception: _db_connection = None; return False (app.py:78-82 and
\* 133-136)
RFail(t) ==
    LET c == threads[t] IN
    /\ c.pc = "r_fail"
    /\ _db_connection' = None
    /\ threads' = [threads EXCEPT ![t] = ResetReturned(c, FALSE)]
    /\ UNCHANGED <<DB_PATH, handles, sequential>>

NextConc ==
    \E t \in Threads :
        \/ Begin(t)
        \/ GCheck(t)
        \/ GOpen(t)
        \/ GAssign(t)
        \/ GRet(t)
        \/ ERun(t)
        \/ RCheck(t)
        \/ RClose(t)
        \/ RNone(t)
        \/ SPath(t)
        \/ SExists(t)
        \/ ROpen(t)
        \/ RAssign(t)
        \/ RProbe(t)
        \/ RFail(t)

\* The service starts on a database file that is there and valid; the file
\* of an upload may be there or not.
InitConc == Init /\ fs[Resolve(DefaultPath)] = "valid"

SpecConc == InitConc /\ [][NextConc]_vars

(***************************************************************************)
(* change_database_endpoint, app.py:2627-2666                              *)
(***************************************************************************)
RECURSIVE Str(_)
\* The characters of a name as one string.
Str(s) == IF s = <<>> THEN "" ELSE Head(s) \o Str(Tail(s))

\* str.startswith(prefix)
StartsWith(s, prefix) ==
    /\ Len(s) >= Len(prefix)
    /\ SubSeq(s, 1, Len(prefix)) = prefix

\* str.endswith(suffix)
EndsWith(s, suffix) ==
    /\ Len(s) >= Len(suffix)
    /\ SubSeq(s, Len(s) - Len(suffix) + 1, Len(s)) = suffix

ExtDuckdb == <<".", "d", "u", "c", "k", "d", "b">>
ExtDb == <<".", "d", "b">>

\* file.filename of the uploads: none selected, a text file, the two accepted
\* extensions, and a name that only resembles an accepted one.
Filenames ==
    {<<>>,
     <<"d", "a", "t", "a", ".", "t", "x", "t">>,
     <<"u", "p", "l", "o", "a", "d", ".", "d", "u", "c", "k", "d", "b">>,
     <<"x", ".", "d", "b">>,
     <<"x", "d", "b">>}

\* Variant: no check of the extension.
ValidExtensionAny(filename) == TRUE

\* file.filename.endswith('.duckdb') or file.filename.endswith('.db')
ValidExtension(filename) ==
    EndsWith(filename, ExtDuckdb) \/ EndsWith(filename, ExtDb)

\* str(temp_dir / file.filename), with temp_dir = Path("./temp_db")
ScratchPath(filename) == "temp_db/" \o Str(filename)

ScratchAbsPaths == {Resolve(ScratchPath(f)) : f \in Filenames \ {<<>>}}

\* temp_dir = Path("./temp_db"), a directory: "missing" or "dir"
ScratchDir == Resolve("temp_db")

\* temp_dir.mkdir(exist_ok=True)
Mkdir(fsys) == [fsys EXCEPT ![ScratchDir] = "dir"]

\* open(file_path, 'wb') and f.write(await file.read()): the uploaded bytes,
\* a database file ("valid") or not ("corrupt"), are written; an I/O error
\* strikes after the file was created; or the form cannot be read or the
\* file cannot be created at all.
WriteOutcomes == {"valid", "corrupt", "partial", "refused"}

\* The multipart form of a request, and how writing its file will go.
Forms ==
    {[db_file |-> FALSE, filename |-> <<>>, write |-> "valid"]}
    \cup {[db_file |-> TRUE, filename |-> f, write |-> w]
          : f \in Filenames, w \in WriteOutcomes}

NoFileUploadedText == "No file uploaded"
NoFileSelectedText == "No file selected"
InvalidTypeText == "Invalid file type. Please upload a .duckdb or .db file"
ConnectedText == "Successfully connected to "
FailedToConnectText == "Failed to connect: "
ErrorOccurredText == "An error occurred: "
IoErrorMsg == <<"[Errno 28] No space left on device">>

\* The endpoint's answer {"success": ..., "message": text + detail}, and what
\* the request did: whether it created the file file_path, whether it called
\* reset_with_new_db, and whether the file it opened for writing was, at that
\* moment, the file of the manager's open handle.
UploadReply(form) ==
    [endpoint |-> "change_database", filename |-> form.filename,
     success |-> FALSE, text |-> "", detail |-> <<>>,
     persisting |-> FALSE, swapCalled |-> FALSE, file_path |-> "",
     live |-> FALSE]

\* The manager references an open handle on the file abs.
Serving(m, abs) ==
    /\ m.conn # None
    /\ m.handles[m.conn].open
    /\ m.handles[m.conn].path = abs

ChangeDatabase(fsys, m, form) ==
    LET answer == UploadReply(form)
        none == BaseCall("change_database", "", m)
        early(text) ==
            {[fs |-> fsys, m |-> m, out |-> none,
              reply |-> [answer EXCEPT !.text = text]]}
        file_path == ScratchPath(form.filename)
        abs == Resolve(file_path)
        started == [answer EXCEPT !.persisting = TRUE, !.file_path = file_path,
                                  !.live = Serving(m, abs)]
        io == [text |-> ErrorOccurredText, detail |-> IoErrorMsg]
        made == Mkdir(fsys)
    IN  IF ~form.db_file THEN early(NoFileUploadedText)
        ELSE IF form.filename = <<>> THEN early(NoFileSelectedText)
        ELSE IF ~ValidExtension(form.filename) THEN early(InvalidTypeText)
        ELSE IF form.write = "refused"
        THEN {[fs |-> made, m |-> m, out |-> none,
               reply |-> [answer EXCEPT !.text = io.text, !.detail = io.detail]]}
        ELSE IF form.write = "partial"
        THEN {[fs |-> [made EXCEPT ![abs] = "corrupt"], m |-> m, out |-> none,
               reply |-> [started EXCEPT !.text = io.text,
                                         !.detail = io.detail]]}
        ELSE LET written == [made EXCEPT ![abs] = form.write] IN
             {IF r.out.ok
              THEN [fs |-> written, m |-> r.m, out |-> r.out,
                    reply |-> [started EXCEPT !.success = TRUE,
                                              !.swapCalled = TRUE,
                                              !.text = ConnectedText,
                                              !.detail = form.filename]]
              ELSE [fs |-> [written EXCEPT ![abs] = "missing"],
                    m |-> r.m, out |-> r.out,
                    reply |-> [started EXCEPT !.swapCalled = TRUE,
                                              !.text = FailedToConnectText,
                                              !.detail = r.out.error]]
              : r \in ResetWithNewDbOn(written, m, file_path)}

CallChangeDatabase ==
    \E form \in Forms :
      \E r \in ChangeDatabase(fs, Manager, form) :
        /\ Commit(r.m)
        /\ fs' = r.fs
        /\ reply' = r.reply
        /\ last' = r.out
        /\ lastGot' = IF r.reply.swapCalled THEN None ELSE lastGot
        /\ failedSwap' =
              IF r.reply.swapCalled
              THEN [failed |-> ~r.out.ok, new |-> r.reply.file_path,
                    served |-> IF _db_connection = None THEN ""
                               ELSE handles[_db_connection].path]
              ELSE failedSwap
        /\ UNCHANGED threads

\* The service starts on a database file that is there and valid, with an
\* empty scratch directory.
InitUpload ==
    /\ DB_PATH = DefaultPath
    /\ _db_connection = None
    /\ handles = <<>>
    /\ fs = [abs \in AbsPaths \cup ScratchAbsPaths \cup {ScratchDir} |->
                IF abs = Resolve(DefaultPath) THEN "valid" ELSE "missing"]
    /\ last = BaseCall("start", "", [conn |-> None, DB_PATH |-> DefaultPath])
    /\ lastGot = None
    /\ failedSwap = NoSwap
    /\ threads = [t \in Threads |-> Idle]
    /\ reply = NoReply

NextUpload ==
    \/ CallChangeDatabase
    \/ CallGetConnection

SpecUpload == InitUpload /\ [][NextUpload]_vars

(***************************************************************************)
(* cleanup_resources, app.py:2669-2688, registered with atexit at          *)
(* app.py:3080: it runs once, when serve() has returned and the process    *)
(* ends.                                                                   *)
(***************************************************************************)
\* What the teardown did: whether close() was called and raised, whether
\* ./temp_db existed, whether shutil.rmtree was called and raised, and
\* whether cleanup_resources let an exception out.
ShutdownReply ==
    [endpoint |-> "shutdown", closeCalled |-> FALSE, closeRaised |-> FALSE,
     dirExisted |-> FALSE, rmtreeCalled |-> FALSE, rmtreeRaised |-> FALSE,
     raised |-> FALSE]

\* _db_connection.close(); _db_connection = None, inside try/except
\* (app.py:2672-2678): the assignment is skipped when close() raises, and a
\* close() that raised has closed nothing.
CloseAtShutdown(m) ==
    IF m.conn = None
    THEN {[m |-> m, called |-> FALSE, raised |-> FALSE]}
    ELSE {[m |-> [m EXCEPT !.conn = None, !.handles[m.conn].open = FALSE],
           called |-> TRUE, raised |-> FALSE],
          [m |-> m, called |-> TRUE, raised |-> TRUE]}

\* The files of the scratch directory that are there.
ScratchFiles(fsys) == {abs \in ScratchAbsPaths : ExistsIn(fsys, abs)}

\* The file system without the files in gone.
Without(fsys, gone) ==
    [abs \in DOMAIN fsys |-> IF abs \in gone THEN "missing" ELSE fsys[abs]]

\* shutil.rmtree(temp_dir), inside try/except (app.py:2681-2688), called
\* when the directory exists: it removes the directory and its files, or
\* raises having removed some of the files.
RemoveScratch(fsys) ==
    IF ~ExistsIn(fsys, ScratchDir)
    THEN {[fs |-> fsys, existed |-> FALSE, called |-> FALSE,
           raised |-> FALSE]}
    ELSE {[fs |-> Without(fsys, ScratchAbsPaths \cup {ScratchDir}),
           existed |-> TRUE, called |-> TRUE, raised |-> FALSE]}
         \cup {[fs |-> Without(fsys, gone), existed |-> TRUE,
                 called |-> TRUE, raised |-> TRUE]
                : gone \in SUBSET ScratchFiles(fsys)}

\* Variant: an exception of close() is not caught, and ends the teardown.
CleanupResourcesStopsAtCloseFailure(fsys, m) ==
    {IF c.raised
     THEN [fs |-> fsys, m |-> c.m,
           reply |-> [ShutdownReply EXCEPT !.closeCalled = TRUE,
                                           !.closeRaised = TRUE,
                                           !.dirExisted =
                                               ExistsIn(fsys, ScratchDir),
                                           !.raised = TRUE]]
     ELSE [fs |-> Without(fsys, ScratchAbsPaths \cup {ScratchDir}), m |-> c.m,
           reply |-> [ShutdownReply EXCEPT !.closeCalled = c.called,
                                           !.dirExisted =
                                               ExistsIn(fsys, ScratchDir),
                                           !.rmtreeCalled =
                                               ExistsIn(fsys, ScratchDir)]]
     : c \in CloseAtShutdown(m)}

CleanupResources(fsys, m) ==
    {[fs |-> d.fs, m |-> c.m,
      reply |-> [ShutdownReply EXCEPT !.closeCalled = c.called,
                                      !.closeRaised = c.raised,
                                      !.dirExisted = d.existed,
                                      !.rmtreeCalled = d.called,
                                      !.rmtreeRaised = d.raised]]
     : c \in CloseAtShutdown(m), d \in RemoveScratch(fsys)}

\* The process has not ended.
Running == reply.endpoint # "shutdown"

CallCleanupResources ==
    /\ Running
    /\ \E r \in CleanupResources(fs, Manager) :
        /\ Commit(r.m)
        /\ fs' = r.fs
        /\ reply' = r.reply
        /\ last' = [BaseCall("cleanup_resources", "", Manager) EXCEPT
                        !.closeRaised = r.reply.closeRaised]
        /\ UNCHANGED <<lastGot, failedSwap, threads>>

\* A request served while the process runs.
ServeChangeDatabase == Running /\ CallChangeDatabase

ServeGetConnection == Running /\ CallGetConnection

NextShutdown ==
    \/ ServeChangeDatabase
    \/ ServeGetConnection
    \/ CallCleanupResources

SpecShutdown == InitUpload /\ [][NextShutdown]_vars

(***************************************************************************)
(* translate_natural_language_to_sql and translate_query_endpoint,         *)
(* app.py:2746-3076.  A text is the sequence of its characters, a word     *)
(* without white space or backticks standing as one element.               *)
(***************************************************************************)
Whitespace == {" ", "\n"}

RECURSIVE LStrip(_)
\* str.lstrip()
LStrip(s) ==
    IF s # <<>> /\ Head(s) \in Whitespace THEN LStrip(Tail(s)) ELSE s

RECURSIVE RStrip(_)
\* str.rstrip()
RStrip(s) ==
    IF s # <<>> /\ s[Len(s)] \in Whitespace
    THEN RStrip(SubSeq(s, 1, Len(s) - 1)) ELSE s

\* str.strip()
Strip(s) == RStrip(LStrip(s))

\* str.find(c): the index, from 0, of the first c, or -1
Find(s, c) ==
    IF \E i \in 1..Len(s) : s[i] = c
    THEN (CHOOSE i \in 1..Len(s) :
              s[i] = c /\ \A j \in 1..(i - 1) : s[j] # c) - 1
    ELSE -1

\* s[k:]
From(s, k) == SubSeq(s, k + 1, Len(s))

\* The element that stands for the backtick character.
Backtick == "BACKTICK"

Fence == <<Backtick, Backtick, Backtick>>

\* The code-fence stripping, app.py:2823-2841
StripFences(content) ==
    LET sql_query == Strip(content)
        first_line_break == Find(sql_query, "\n")
        opened == IF StartsWith(sql_query, Fence)
                  THEN IF first_line_break # -1
                       THEN From(sql_query, first_line_break + 1)
                       ELSE From(sql_query, 3)
                  ELSE sql_query
        closed == IF EndsWith(opened, Fence)
                  THEN SubSeq(opened, 1, Len(opened) - 3)
                  ELSE opened
    IN  Strip(closed)

\* The SQL texts a translator wraps: without leading or trailing white
\* space, on one line or on several.
Words == {"SELECT", "1"}
InnerSqls ==
    {<<w>> : w \in Words}
    \cup {<<v, x, w>> : v \in Words, x \in Whitespace, w \in Words}
    \cup {<<"SELECT", " ", "1", x, "1">> : x \in Whitespace}

\* The language tag after the opening fence, if there is one.
Tags == {<<>>, <<"sql">>}

\* What stands between the fence or tag and the SQL text.
Separators == {<<>>, <<" ">>, <<"\n">>}

\* A translator output: opening fence, tag, the SQL text, closing fence.
Wrapped(p) == Fence \o p.tag \o p.before \o p.inner \o p.after \o Fence

WrappedParts ==
    {[tag |-> t, before |-> b, inner |-> S, after |-> a]
     : t \in Tags, b \in Separators, S \in InnerSqls, a \in Separators}

\* The translator's outputs of the endpoint's requests: the bare SQL, the
\* SQL in a fenced block, and the SQL between fences on one line.
Contents ==
    {<<"SELECT", " ", "1">>,
     Fence \o <<"sql", "\n", "SELECT", " ", "1", "\n">> \o Fence,
     Fence \o <<"sql", " ", "SELECT", " ", "1">> \o Fence}

\* A request to /translate-query and what it meets: the form's query is
\* blank or not, OPENAI_API_KEY is set or not, the POST to the translator
\* raises, or is answered with another status than 200, or with content.
TranslateRequests ==
    {[blank |-> TRUE, api_key |-> TRUE, post |-> "ok", content |-> <<>>],
     [blank |-> FALSE, api_key |-> FALSE, post |-> "ok", content |-> <<>>],
     [blank |-> FALSE, api_key |-> TRUE, post |-> "raises", content |-> <<>>],
     [blank |-> FALSE, api_key |-> TRUE, post |-> "status", content |-> <<>>]}
    \cup {[blank |-> FALSE, api_key |-> TRUE, post |-> "ok", content |-> c]
          : c \in Contents}

NoApiKeyText ==
    "OpenAI API key not configured. Please add OPENAI_API_KEY to your .env file."
ApiErrorText == "OpenAI API error: "
TranslationErrorText == "Translation error: "
PleaseEnterText == "Please enter a query"
UnexpectedErrorText == "An unexpected error occurred: "

RECURSIVE Schemas(_, _, _)
\* for table in tables: schema = get_table_schema(table), an exception of
\* which is caught (app.py:2696-2711)
Schemas(m, tables, out) ==
    IF tables = <<>>
    THEN {[m |-> m, raised |-> FALSE, out |-> out]}
    ELSE UNION {Schemas(r.m, Tail(tables), r.out)
                : r \in GetTableSchema(m, Head(tables))}

\* get_database_schema_info, app.py:2690-2713
GetDatabaseSchemaInfo(m) ==
    UNION {IF names.out.raised
           THEN {[m |-> names.m, raised |-> TRUE, out |-> names.out]}
           ELSE Schemas(names.m, names.out.data, names.out)
           : names \in GetTableNames(m)}

\* translate_natural_language_to_sql: {"error": text + detail} or
\* {"sql": sql}, with the manager as the schema calls leave it.
TranslateNaturalLanguageToSql(m, req) ==
    LET result == [m |-> m, out |-> BaseCall("translate_query", "", m),
                   failed |-> TRUE, text |-> "", detail |-> <<>>,
                   sql |-> <<>>]
    IN  IF ~req.api_key
        THEN {[result EXCEPT !.text = NoApiKeyText]}
        ELSE {IF info.raised
              THEN [result EXCEPT !.m = info.m, !.out = info.out,
                                  !.text = TranslationErrorText,
                                  !.detail = info.out.error]
              ELSE IF req.post = "raises"
              THEN [result EXCEPT !.m = info.m, !.out = info.out,
                                  !.text = TranslationErrorText]
              ELSE IF req.post = "status"
              THEN [result EXCEPT !.m = info.m, !.out = info.out,
                                  !.text = ApiErrorText]
              ELSE [result EXCEPT !.m = info.m, !.out = info.out,
                                  !.failed = FALSE,
                                  !.sql = StripFences(req.content)]
              : info \in GetDatabaseSchemaInfo(m)}

\* Variant: the endpoint does not look at the result's "error".
HasErrorNever(result) == FALSE

\* "error" in result (app.py:2878)
HasError(result) == result.failed

\* What the endpoint answers and what it did.
TranslateReply(req) ==
    [endpoint |-> "translate_query", request |-> req, kind |-> "",
     text |-> "", detail |-> <<>>, schemaRaised |-> FALSE,
     sql |-> <<>>, executed |-> FALSE]

\* translate_query_endpoint, app.py:2857-3076
TranslateQuery(m, req) ==
    LET answer == TranslateReply(req) IN
    IF req.blank
    THEN {[m |-> m, out |-> BaseCall("translate_query", "", m),
           reply |-> [answer EXCEPT !.kind = "error",
                                    !.text = PleaseEnterText]]}
    ELSE UNION {
      LET seen == [answer EXCEPT !.schemaRaised =
                        result.failed /\ result.out.raised] IN
      IF HasError(result)
      THEN {[m |-> result.m, out |-> result.out,
             reply |-> [seen EXCEPT !.kind = "translation error",
                                    !.text = result.text,
                                    !.detail = result.detail]]}
      ELSE {[m |-> e.m, out |-> e.out,
             reply |-> IF e.out.raised
                       THEN [seen EXCEPT !.kind = "unexpected error",
                                         !.text = UnexpectedErrorText,
                                         !.detail = e.out.error,
                                         !.sql = result.sql,
                                         !.executed = TRUE]
                       ELSE [seen EXCEPT !.kind = IF e.out.hasError
                                                  THEN "query error"
                                                  ELSE "results",
                                         !.detail = e.out.error,
                                         !.sql = result.sql,
                                         !.executed = TRUE]]
            : e \in ExecuteQuery(result.m, Str(result.sql))}
      : result \in TranslateNaturalLanguageToSql(m, req)}

CallTranslateQuery ==
    \E req \in TranslateRequests :
      \E r \in TranslateQuery(Manager, req) :
        /\ Commit(r.m)
        /\ reply' = r.reply
        /\ last' = r.out
        /\ lastGot' = IF r.out.firstOn # None THEN r.out.firstOn ELSE lastGot
        /\ UNCHANGED <<fs, failedSwap, threads>>

NextTranslate ==
    \/ CallTranslateQuery
    \/ CallGetConnection
    \/ ChangeFile
    \/ CloseOutOfBand

SpecTranslate == Init /\ [][NextTranslate]_vars

(***************************************************************************)
(* The code-fence stripping alone, applied to every wrapped output.        *)
(***************************************************************************)
InitStrip ==
    /\ Init
    /\ fs = [abs \in AbsPaths |-> "valid"]

\* A translator output arrives.
Receive ==
    \E p \in WrappedParts :
        /\ reply' = [endpoint |-> "translator", parts |-> p,
                     content |-> Wrapped(p)]
        /\ UNCHANGED <<DB_PATH, _db_connection, handles, fs, last, lastGot,
                       failedSwap, threads>>

\* The output is stripped of its fences.
ApplyStripFences ==
    /\ reply.endpoint = "translator"
    /\ reply' = [endpoint |-> "stripped", parts |-> reply.parts,
                 content |-> reply.content,
                 sql |-> StripFences(reply.content)]
    /\ UNCHANGED <<DB_PATH, _db_connection, handles, fs, last, lastGot,
                   failedSwap, threads>>

NextStrip ==
    \/ Receive
    \/ ApplyStripFences

SpecStrip == InitStrip /\ [][NextStrip]_vars

(***************************************************************************)
(* Properties.  `last` describes the call that has just returned; the      *)
(* environment's steps replace it, so a property of "after the call" is    *)
(* read in the state the call returns in.                                  *)
(***************************************************************************)
Swapped == last.op = "reset_with_new_db"
Reset == last.op = "reset_connection"
Executed == last.op = "execute_query"
Got == last.op = "get_connection"

\* Handles the manager holds or the last call returned or ran a statement on.
ServedHandles ==
    {_db_connection, last.ret, last.firstOn, last.retryOn} \ {None}

\* C1: once reset_with_new_db(new_path) has failed, and until a swap
\* succeeds, every handle the manager holds, returns from get_connection or
\* runs a statement on is bound to new_path, never to the file that was
\* served before the failed swap; or the manager has no handle.
C1_NeverServesPreviousFile ==
    failedSwap.failed =>
        \A h \in ServedHandles :
            /\ handles[h].path = Resolve(failedSwap.new)
            /\ failedSwap.served # Resolve(failedSwap.new)
                   => handles[h].path # failedSwap.served

\* C1, the case: the swap away from a served file failed, the old file is
\* still a valid database, and a later call has obtained a handle.
C1_Witness ==
    /\ failedSwap.failed
    /\ failedSwap.served # ""
    /\ failedSwap.served # Resolve(failedSwap.new)
    /\ fs[failedSwap.served] = "valid"
    /\ last.op \in {"get_connection", "execute_query"}
    /\ _db_connection # None

\* C2 as stated: after a failed reset_with_new_db the configured path still
\* holds the value it had before the call, and an error message is returned.
C2_PathNotCommitted ==
    (Swapped /\ ~last.ok) =>
        (DB_PATH = last.prePath /\ last.error # NoMsg)

\* C2 as amended: after a failed reset_with_new_db the configured path is
\* new_path (it is assigned before the validation), no exception leaves the
\* call and an error message "Failed to change database: ..." is returned.
C2_PathCommittedOnFailure ==
    (Swapped /\ ~last.ok) =>
        /\ DB_PATH = last.arg
        /\ ~last.raised
        /\ StartsWith(last.error, SwapPrefix)
        /\ Len(last.error) > Len(SwapPrefix)

\* C2, the case: a swap to another path than the configured one has failed.
C2_Witness == Swapped /\ ~last.ok /\ last.arg # last.prePath

\* C3: every connection object that is open is the one the manager
\* references: at most one handle is open at any time.
C3_AtMostOneOpen ==
    \A h \in 1..Len(handles) : handles[h].open => h = _db_connection

\* C4: one execute_query call resets at most once and executes the
\* statement at most twice; the second execution happens only after a reset
\* that returned True; after a failed reset the call returns the first
\* error, after a failed retry it returns the retry's error, with no further
\* reset or execution.
C4_BoundedRetry ==
    Executed =>
        /\ last.resets <= 1
        /\ last.execs <= 2
        /\ last.execs = 2 => (last.resets = 1 /\ last.resetOk)
        /\ (last.resets = 1 /\ ~last.resetOk) =>
               /\ last.execs = 1
               /\ last.hasError /\ ~last.raised
               /\ last.error = last.firstError
        /\ last.retryError # NoMsg =>
               /\ last.execs = 2 /\ last.resets = 1
               /\ last.hasError /\ ~last.raised
               /\ last.error = RetryPrefix \o last.retryError

\* C4, the case: the reset succeeded and the retry failed.
C4_Witness ==
    Executed /\ last.resetOk /\ last.retryError # NoMsg /\ last.execs = 2

\* C5: when execute_query cannot obtain a handle, it returns a result with
\* a populated error field and no exception leaves it.
C5_GetFailureIsErrorResult ==
    (Executed /\ last.execs = 0) =>
        (~last.raised /\ last.hasError /\ last.error # NoMsg)

\* Texts whose lower-cased form contains neither "connection" nor "database".
OtherFailures == {ParserMsg, MemoryMsg}

\* C6: when the first execution fails with a text that contains neither
\* "connection" nor "database", execute_query resets nothing and retries
\* nothing, returns exactly that text as the error, and the manager still
\* holds the handle the statement ran on and the same configured path.
C6_OtherFailureVerbatim ==
    (Executed /\ last.firstError \in OtherFailures) =>
        /\ last.resets = 0
        /\ last.execs = 1
        /\ last.hasError /\ ~last.raised
        /\ last.error = last.firstError
        /\ last.columns = <<>> /\ last.data = <<>>
        /\ _db_connection = last.firstOn
        /\ last.preConn # None => _db_connection = last.preConn
        /\ handles[_db_connection].path = Resolve(DB_PATH)
        /\ DB_PATH = last.prePath

\* C6, the case: a syntax error on a handle the manager already held.
C6_Witness ==
    Executed /\ last.firstError = ParserMsg /\ last.preConn # None

\* C7: once get_connection has returned a handle, and until a reset or a
\* swap, every get_connection call returns that same handle, bound to the
\* same path, and opens nothing.
C7_SingletonGet ==
    [][(last'.op = "get_connection" /\ lastGot # None) =>
          /\ ~last'.raised
          /\ last'.ret = lastGot
          /\ lastGot' = lastGot
          /\ handles' = handles
          /\ _db_connection' = lastGot
          /\ DB_PATH' = DB_PATH]_vars

\* C7, the case: get_connection returned the handle an earlier
\* get_connection had returned.
C7_Witness ==
    Got /\ last.ok /\ last.preConn # None /\ last.ret = last.preConn
        /\ lastGot = last.ret

\* What the next get_connection call would return.
NextGet == GetConnection(Manager)

\* The part of C8 that does not depend on the old handle.
SwapInstalled ==
    /\ DB_PATH = last.arg
    /\ _db_connection # None
    /\ _db_connection = last.ret
    /\ _db_connection # last.preConn
    /\ handles[_db_connection].open
    /\ handles[_db_connection].path = Resolve(last.arg)
    /\ last.probed
    /\ ~NextGet.raised
    /\ NextGet.ret = _db_connection
    /\ NextGet.m = Manager

C9_NoOpenHandleAfterFailedSwap ==
    (Swapped /\ ~last.ok) =>
        /\ _db_connection = None
        /\ \A h \in 1..Len(handles) : ~handles[h].open

\* C10: reset_connection never raises; it returns True with a handle opened
\* by this call on the configured path, probed and installed, or False with
\* the reference None.
C10_ResetOutcome ==
    Reset =>
        /\ ~last.raised
        /\ DB_PATH = last.prePath
        /\ IF last.ok
           THEN /\ _db_connection = last.ret
                /\ _db_connection # None
                /\ _db_connection # last.preConn
                /\ _db_connection = Len(handles)
                /\ handles[_db_connection].open
                /\ handles[_db_connection].path = Resolve(DB_PATH)
                /\ last.probed
           ELSE _db_connection = None

\* C10, the case: a successful reset of a handle that had been closed out of
\* band.
C10_Witness ==
    /\ Reset /\ last.ok
    /\ last.preConn # None
    /\ ~handles[last.preConn].open
    /\ ~last.closeRaised

\* Texts whose lower-cased form contains "connection" or "database".
ConnectionFaults == {ClosedMsg, LostMsg, DbObjectMsg}

\* C11: when the first execution fails with a connection-fault text, the
\* reset succeeds and the retry succeeds, execute_query has reset exactly
\* once and returns the retry's columns and rows with no error field.
C11_RecoveredByOneReset ==
    (/\ Executed
     /\ last.firstError \in ConnectionFaults
     /\ last.resetOk
     /\ last.execs = 2
     /\ last.retryError = NoMsg) =>
        /\ last.resets = 1
        /\ ~last.raised
        /\ ~last.hasError /\ last.error = NoMsg
        /\ last.columns = Answer(last.arg).columns
        /\ last.data = Answer(last.arg).data
        /\ last.retryOn = _db_connection
        /\ last.retryOn # last.firstOn

\* C11, the case: the held handle had been closed out of band, and the
\* statement returned its row after the reset.
C11_Witness ==
    /\ Executed
    /\ last.preConn # None
    /\ last.firstError = ClosedMsg
    /\ last.execs = 2
    /\ ~last.hasError
    /\ last.data = << <<1>> >>

\* C12: get_connection called with no handle while the configured path is
\* missing, or is a file the engine rejects, raises an error whose text
\* names the path; the manager still has no handle and the same path.
C12_GetFailureNamesPath ==
    (/\ Got
     /\ last.preConn = None
     /\ fs[Resolve(last.prePath)] # "valid") =>
        /\ last.raised
        /\ last.ret = None
        /\ Contains(last.error, <<Resolve(last.prePath)>>)
        /\ fs[Resolve(last.prePath)] = "missing" =>
               last.error = NotFoundPrefix \o <<Resolve(last.prePath)>>
        /\ _db_connection = None
        /\ DB_PATH = last.prePath

\* C12, the case: the configured file does not exist.
C12_Witness ==
    /\ Got
    /\ last.raised
    /\ fs[Resolve(DB_PATH)] = "missing"
    /\ _db_connection = None

\* C16: a result of execute_query either has no error field, or has an
\* error message with an empty column list and an empty row list.
C16_ErrorExcludesRows ==
    (Executed /\ ~last.raised) =>
        IF last.hasError
        THEN /\ last.error # NoMsg
             /\ last.columns = <<>>
             /\ last.data = <<>>
        ELSE last.error = NoMsg

\* C16, the case: an error result after a retry.
C16_Witness ==
    Executed /\ ~last.raised /\ last.hasError /\ last.execs = 2

Listed == last.op = "get_table_names"
Described == last.op = "get_table_schema"

\* C14: when the handle the manager holds is closed, get_table_names,
\* get_table_schema and execute_query report a failure to their caller (an
\* exception or an error field), or, for execute_query, answer from a fresh
\* handle after the reset; none returns a plain result.
C14_ClosedHandleFailsExplicitly ==
    ((Listed \/ Described \/ Executed) /\ last.firstError = ClosedMsg) =>
        \/ last.raised
        \/ last.hasError
        \/ (last.execs = 2 /\ last.resetOk /\ last.retryError = NoMsg)

\* C15: no failure leaves get_table_names or get_table_schema as an
\* exception, also when get_connection cannot open a handle.
C15_IntrospectionNeverRaises ==
    (Listed \/ Described) => ~last.raised


\* A request that asked for a handle, or for a statement to run, while
\* another request was inside the window of a reset or swap and the manager
\* held no handle, and that has its answer.
AnsweredInWindow(t) ==
    /\ threads[t].window
    /\ threads[t].op \in {"get_connection", "execute_query"}
    /\ threads[t].pc = "done"

\* C13: a request that calls get_connection() or execute_query() while a
\* reset or swap has discarded the old handle and not yet installed the new
\* one receives an explicit "not ready" error outcome: it is neither handed
\* a handle or a result, nor does an exception leave the call.
C13_NotReadyInWindow ==
    \A t \in Threads :
        AnsweredInWindow(t) => threads[t].outcome = "not ready"

\* The name ends in an accepted extension.
HasAcceptedSuffix(name) ==
    \E k \in 0..Len(name) :
        \/ name = SubSeq(name, 1, k) \o ExtDuckdb
        \/ name = SubSeq(name, 1, k) \o ExtDb

\* The requests that upload a named file without an accepted extension.
RejectedForms ==
    {form \in Forms : /\ form.db_file
                      /\ form.filename # <<>>
                      /\ ~HasAcceptedSuffix(form.filename)}

\* This step is change_database_endpoint answering the request form.
Uploaded(form) ==
    /\ reply'.endpoint = "change_database"
    /\ reply'.filename = form.filename
    /\ last'.op \in {"change_database", "reset_with_new_db"}
    /\ \E r \in ChangeDatabase(fs, Manager, form) :
        /\ reply' = r.reply
        /\ last' = r.out
        /\ fs' = r.fs
        /\ DB_PATH' = r.m.DB_PATH
        /\ _db_connection' = r.m.conn
        /\ handles' = r.m.handles

\* C17: an upload whose (non-empty) file name does not end in ".duckdb" or
\* ".db" is answered with a failure indicator and the invalid-file-type
\* message before anything is persisted: no file is created or written,
\* reset_with_new_db is not called, and the manager's handle, its connection
\* objects and the configured path are as before the request.
C17_RejectedBeforePersistence ==
    [][\A form \in RejectedForms :
          Uploaded(form)
          => /\ ~reply'.success
             /\ reply'.text = InvalidTypeText
             /\ ~reply'.persisting
             /\ ~reply'.swapCalled
             /\ last'.op # "reset_with_new_db"
             /\ UNCHANGED <<fs, DB_PATH, _db_connection, handles>>]_vars

\* C17, the case: a file named like a text file, or with an extension that
\* only resembles an accepted one, was uploaded while the manager held a
\* handle, and the endpoint has answered.
C17_Witness ==
    /\ reply.endpoint = "change_database"
    /\ reply.filename # <<>>
    /\ ~HasAcceptedSuffix(reply.filename)
    /\ reply.text = InvalidTypeText
    /\ _db_connection # None

\* C18: whenever change_database_endpoint reports failure after it started
\* persisting the upload (the swap failed, or an I/O error occurred while
\* the file was written), the uploaded file no longer exists in the scratch
\* directory when the endpoint returns.
C18_ArtifactRemovedOnFailure ==
    (/\ reply.endpoint = "change_database"
     /\ reply.persisting
     /\ ~reply.success)
    => ~Exists(Resolve(reply.file_path))

\* The translation of the answered request failed: the credential is
\* missing, or the translator answered with another status than 200, or an
\* exception was raised during the translation (by the POST, or by the
\* schema introspection before it).
TranslationFailed ==
    /\ reply.endpoint = "translate_query"
    /\ ~reply.request.blank
    /\ \/ ~reply.request.api_key
       \/ reply.request.post \in {"raises", "status"}
       \/ reply.schemaRaised

\* C19: when the translation fails, translate_query_endpoint answers with
\* the translation's error and the request never calls execute_query.
C19_NoExecutionAfterFailedTranslation ==
    TranslationFailed =>
        /\ reply.kind = "translation error"
        /\ reply.text \in {NoApiKeyText, ApiErrorText, TranslationErrorText}
        /\ ~reply.executed
        /\ last.op # "execute_query"

\* C19, the case: the translator answered with an error status while the
\* manager held a handle a statement could have run on.
C19_Witness ==
    /\ reply.endpoint = "translate_query"
    /\ reply.request.post = "status"
    /\ reply.kind = "translation error"
    /\ _db_connection # None
    /\ handles[_db_connection].open

\* C20: for every SQL text S without leading or trailing white space and
\* every translator output made of an opening fence, an optional language
\* tag, S and a closing fence, with or without line breaks between the
\* fence or tag and S, the code-fence stripping yields exactly S.
C20_StripYieldsInner ==
    reply.endpoint = "stripped" => reply.sql = reply.parts.inner

\* C22: when the statement executes successfully (at the first attempt or
\* at the retry) and produces zero rows, execute_query returns the column
\* names of the result's description, an empty row list, and no error.
C22_ZeroRowsKeepColumns ==
    (/\ Executed
     /\ \/ last.execs = 1 /\ last.firstError = NoMsg
        \/ last.execs = 2 /\ last.retryError = NoMsg
     /\ Answer(last.arg).data = <<>>) =>
        /\ last.columns = Answer(last.arg).columns
        /\ last.data = <<>>
        /\ ~last.hasError /\ last.error = NoMsg
        /\ ~last.raised

\* C22, the case: a statement that yields no row was executed and returned
\* the name of its one column; and it did so after a reset and a retry.
C22_Witness ==
    /\ Executed
    /\ last.arg = "SELECT x FROM t WHERE FALSE"
    /\ last.execs = 2
    /\ last.columns = <<"x">>
    /\ last.data = <<>>

\* C23: when execute_query retries after a successful reset, the retry runs
\* on the handle that reset has installed, a connection object created
\* after the one the first attempt failed on, which the manager holds when
\* the call returns; never on the handle of the first attempt.
C23_RetryOnFreshHandle ==
    (Executed /\ last.execs = 2) =>
        /\ last.resetOk /\ last.probed
        /\ last.retryOn # None
        /\ last.retryOn # last.firstOn
        /\ last.retryOn > last.firstOn
        /\ last.retryOn = _db_connection
        /\ handles[last.retryOn].path = Resolve(DB_PATH)

\* C23, the case: the first attempt ran on a handle that had been closed,
\* the reset succeeded and the statement was retried.
C23_Witness ==
    /\ Executed
    /\ last.firstError = ClosedMsg
    /\ last.resetOk
    /\ last.execs = 2
    /\ ~handles[last.firstOn].open

\* C24: when close() of the existing handle raises inside reset_connection
\* or reset_with_new_db, no exception leaves the call, the old handle is no
\* longer the manager's, and the call goes on to open and probe: it returns
\* success exactly when it has installed a new open handle that passed the
\* probe, and on failure the manager has no handle and the error is the
\* open's or the probe's.
C24_CloseFailureNonFatal ==
    ((Swapped \/ Reset) /\ last.closeRaised) =>
        /\ ~last.raised
        /\ last.preConn # None
        /\ _db_connection # last.preConn
        /\ IF last.ok
           THEN /\ _db_connection = Len(handles)
                /\ handles[_db_connection].open
                /\ handles[_db_connection].path = Resolve(DB_PATH)
                /\ last.probed
                /\ fs[Resolve(DB_PATH)] = "valid"
           ELSE /\ _db_connection = None
                /\ fs[Resolve(DB_PATH)] = "valid"
                       => \E e \in Faults :
                            last.error \in {e, SwapPrefix \o e}

\* C24, the case: the close raised and the reset or swap succeeded.
C24_Witness ==
    /\ (Swapped \/ Reset) /\ last.closeRaised /\ last.ok

\* C25: an SQL error whose text contains "Database", raised by a statement
\* on an open handle, is taken for a connection fault: execute_query resets
\* once, which replaces the handle, retries once if the reset succeeded,
\* and when the retry fails the same way the error returned is
\* "Query failed after connection reset: " followed by the retry's text,
\* not the engine's text alone.
C25_SqlErrorMisclassified ==
    (Executed /\ last.firstError = DbObjectMsg) =>
        /\ last.resets = 1
        /\ _db_connection # last.firstOn
        /\ last.resetOk =>
              /\ last.execs = 2
              /\ last.retryOn # last.firstOn
              /\ last.retryError = DbObjectMsg =>
                    /\ last.hasError
                    /\ last.error = RetryPrefix \o DbObjectMsg
                    /\ last.error # DbObjectMsg

\* C25, the case: "USE nodb" failed on a handle the manager held, the reset
\* succeeded and the retry failed the same way.
C25_Witness ==
    /\ Executed
    /\ last.arg = "USE nodb"
    /\ last.preConn # None
    /\ last.firstError = DbObjectMsg
    /\ last.retryError = DbObjectMsg
    /\ last.execs = 2

\* C29: a manager without a handle, as reset_connection leaves it when it
\* returns False, is not stuck: the next get_connection or execute_query
\* opens the configured path again, and when that file is valid the call
\* gets a new open handle on it, which the manager then holds, without a
\* reset or swap.
C29_FailedResetNotSticky ==
    (/\ Got \/ Executed
     /\ last.preConn = None
     /\ fs[Resolve(last.prePath)] = "valid") =>
        LET h == IF Got THEN last.ret ELSE last.firstOn IN
        /\ ~last.raised
        /\ h # None
        /\ h > 0 /\ h <= Len(handles)
        /\ handles[h].path = Resolve(last.prePath)
        /\ Got => /\ _db_connection = h
                  /\ h = Len(handles)
                  /\ handles[h].open
        /\ DB_PATH = last.prePath

\* C29, the case: connection objects had been created before and the last
\* swap, if any, had not failed, so that it was a failed reset that left the
\* manager without a handle; get_connection has then opened a new one.
C29_Witness ==
    /\ Got
    /\ ~last.raised
    /\ last.preConn = None
    /\ last.ret >= 2
    /\ ~failedSwap.failed

\* C28: get_connection, reset_connection, execute_query, get_table_names
\* and get_table_schema leave the configured path as it was, whether they
\* succeed or fail; and a handle that a reset has installed is bound to
\* that path.
C28_OnlySwapSetsPath ==
    /\ last.op \in {"get_connection", "reset_connection", "execute_query",
                    "get_table_names", "get_table_schema"}
          => DB_PATH = last.prePath
    /\ (last.resetOk /\ last.op \in {"reset_connection", "execute_query"})
          => handles[_db_connection].path = Resolve(last.prePath)

\* C28, the case: after a swap has set another path than the startup one, a
\* reset has succeeded.
C28_Witness ==
    /\ DB_PATH = UploadPath
    /\ Reset /\ last.ok

\* C26: with concurrent requests, a handle that a request has obtained for
\* its statement stays open until the statement has been executed: a request
\* about to execute on the handle get_connection returned to it never finds
\* that another request's reset or swap has closed it.
C26_HandleOpenWhileInUse ==
    \A t \in Threads :
        (threads[t].pc = "e_run" /\ threads[t].conn # None)
            => handles[threads[t].conn].open

\* C27: when requests call get_connection at the same time, or while
\* another is inside a reset or swap, a connection that get_connection has
\* opened and that is still open when the call has returned is the one the
\* manager references: none is overwritten in the global reference and left
\* open.
C27_NoLeakUnderConcurrency ==
    \A t \in Threads :
        (/\ threads[t].op = "get_connection"
         /\ threads[t].pc = "done"
         /\ threads[t].overlapped
         /\ _db_connection # None
         /\ threads[t].conn # None
         /\ handles[threads[t].conn].open)
            => _db_connection = threads[t].conn
\* C30: change_database_endpoint never opens for writing, and so never
\* overwrites, the file of the handle the manager holds open at that moment;
\* an upload named like the scratch database being served leaves the live
\* file alone.
C30_LiveFileUntouched ==
    (reply.endpoint = "change_database" /\ reply.persisting) => ~reply.live

\* The scratch directory and every file of it are gone.
ScratchGone ==
    \A abs \in ScratchAbsPaths \cup {ScratchDir} : ~Exists(abs)

\* C21: cleanup_resources at shutdown never raises; when the manager holds a
\* handle it calls close() on it, and unless close() raises the handle is
\* closed and the reference cleared; it attempts the removal of the scratch
\* directory whenever that directory exists, also when close() has raised,
\* and unless the removal raises the directory and the swapped-in database
\* files in it are gone.
C21_CleanupIsBestEffort ==
    reply.endpoint = "shutdown" =>
        /\ last.op = "cleanup_resources"
        /\ ~reply.raised
        /\ reply.closeCalled = (last.preConn # None)
        /\ (reply.closeCalled /\ ~reply.closeRaised)
               => /\ _db_connection = None
                  /\ ~handles[last.preConn].open
        /\ reply.rmtreeCalled = reply.dirExisted
        /\ (reply.rmtreeCalled /\ ~reply.rmtreeRaised) => ScratchGone
        /\ ~reply.dirExisted => ScratchGone

\* C21, the case: the process ends while the manager serves a swapped-in
\* database of the scratch directory, close() raises, and the scratch
\* directory is removed all the same.
C21_Witness ==
    /\ reply.endpoint = "shutdown"
    /\ reply.closeCalled
    /\ reply.closeRaised
    /\ handles[last.preConn].path \in ScratchAbsPaths
    /\ reply.rmtreeCalled
    /\ ~reply.rmtreeRaised
    /\ ScratchGone

====
